---- MODULE Spec2Model ----
(***************************************************************************)
(* A model of the pesde manifest data model (src/src/manifest.rs) and of   *)
(* the registry's package lookup endpoint                                  *)
(* (src/registry/src/endpoints/package_version.rs).                        *)
(*                                                                         *)
(* Strings that the code takes apart (override keys) are sequences of      *)
(* one-character strings.  Semantic versions are triples of naturals       *)
(* compared component by component.                                        *)
(***************************************************************************)
EXTENDS Integers, Sequences, FiniteSets

VARIABLES
    key_s,          \* the text handed to OverrideKey::from_str
    key_parsed,     \* the Result of OverrideKey::from_str, or Unset
    key_shown,      \* the text produced by Display for OverrideKey, or Unset
    manifest,       \* the three dependency maps of a Manifest
    all_deps,       \* the Result of Manifest::all_dependencies, or Unset
    target,         \* a Target
    publish,        \* the Result of Target::validate_publish, or Unset
    kinds,          \* <<self, dependency>> handed to is_compatible_with
    compatible,     \* the result of is_compatible_with, or Unset
    repo,           \* the condition of the index repository on disk
    store,          \* the index record of the queried package in the index repository
    request,        \* the (version, target, doc, Accept) of the request in flight
    selected,       \* the handler's Option<(v_id, entry, targets)> once it has selected
    response,       \* the outcome of get_package_version, or Unset
    worklist,       \* the Vec the 'finder loop pops from, once the handler is in it
    turns,          \* the turns the 'finder loop has taken
    source_lock,    \* app_state.source: the task holding the Mutex, NoTask when free
    pc              \* the position of each task running get_package_version

vars == <<key_s, key_parsed, key_shown, manifest, all_deps, target, publish,
          kinds, compatible, repo, store, request, selected, response,
          worklist, turns, source_lock, pc>>

keyVars == <<key_s, key_parsed, key_shown>>
manifestVars == <<manifest, all_deps>>
targetVars == <<target, publish, kinds, compatible>>
registryVars == <<repo, store, request, selected, response>>
finderVars == <<worklist, turns>>
taskVars == <<source_lock, pc>>

\* The value of a result variable before its operation has run.
Unset == [tag |-> "Unset"]

\* The value of the variables of a component that is not exercised.
Idle == [tag |-> "Idle"]

\* Option<T>
None == [tag |-> "None"]
Some(x) == [tag |-> "Some", val |-> x]

\* A value returned by an operation that has run.
Returned(x) == [tag |-> "Returned", val |-> x]

\* Result<T, E>
Ok(x) == [tag |-> "Ok", val |-> x]
Err(e) == [tag |-> "Err", err |-> e]

----------------------------------------------------------------------------
(* Bounds *)

\* longest override key text
MaxLen == 3

\* number of distinct dependency aliases
MaxAlias == 2

\* most entries of a stored index file
MaxEntries == 2

\* most nodes of a documentation tree
MaxNodes == 4

\* number of requests running at the same time
MaxTasks == 2

\* All sequences over S of length at most n.
SeqsUpTo(S, n) == UNION {[1..k -> S] : k \in 0..n}

----------------------------------------------------------------------------
(* OverrideKey: src/src/manifest.rs 179-219 *)

\* The characters override key texts are made of: two alias letters and the
\* two separators.
Chars == {"a", "b", ",", ">"}

\* Index of the first occurrence of sep in str, 0 when there is none.
RECURSIVE FindFrom(_, _, _)
FindFrom(str, sep, i) ==
    IF i > Len(str) THEN 0
    ELSE IF str[i] = sep THEN i
    ELSE FindFrom(str, sep, i + 1)

\* str::split(sep): the pieces between the separators, in order.  A text
\* without separator (the empty text too) yields that text as its one piece.
RECURSIVE split(_, _)
split(str, sep) ==
    LET i == FindFrom(str, sep, 1) IN
    IF i = 0 THEN <<str>>
    ELSE <<SubSeq(str, 1, i - 1)>> \o split(SubSeq(str, i + 1, Len(str)), sep)

\* [T]::join(sep): the pieces with sep between neighbours.
RECURSIVE join(_, _)
join(pieces, sep) ==
    IF pieces = <<>> THEN <<>>
    ELSE IF Len(pieces) = 1 THEN pieces[1]
    ELSE pieces[1] \o <<sep>> \o join(Tail(pieces), sep)

\* OverrideKey::from_str
from_str(str) ==
    LET chains == split(str, ",")
        overrides == [i \in 1..Len(chains) |-> split(chains[i], ">")]
    IN IF overrides = <<>> THEN Err("Empty") ELSE Ok(overrides)

\* A Display that leaves out empty alias names.
RECURSIVE DropEmpty(_)
DropEmpty(pieces) ==
    IF pieces = <<>> THEN <<>>
    ELSE IF pieces[1] = <<>> THEN DropEmpty(Tail(pieces))
    ELSE <<pieces[1]>> \o DropEmpty(Tail(pieces))

fmt_SkipEmptyAlias(overrides) ==
    join([i \in 1..Len(overrides) |-> join(DropEmpty(overrides[i]), ">")], ",")

\* Display for OverrideKey
fmt(overrides) ==
    join([i \in 1..Len(overrides) |-> join(overrides[i], ">")], ",")

KeyInit ==
    /\ key_s \in SeqsUpTo(Chars, MaxLen)
    /\ key_parsed = Unset
    /\ key_shown = Unset

\* s.parse::<OverrideKey>()
ParseKey ==
    /\ key_parsed = Unset
    /\ key_parsed' = from_str(key_s)
    /\ UNCHANGED <<key_s, key_shown, manifestVars, targetVars, registryVars, finderVars, taskVars>>

\* key.to_string() of a parsed key
DisplayKey ==
    /\ key_parsed # Unset
    /\ key_parsed.tag = "Ok"
    /\ key_shown = Unset
    /\ key_shown' = Returned(fmt(key_parsed.val))
    /\ UNCHANGED <<key_s, key_parsed, manifestVars, targetVars, registryVars, finderVars, taskVars>>

----------------------------------------------------------------------------
(* TargetKind and Target: src/src/manifest.rs 15-171 *)

\* enum TargetKind, in declaration order (all features enabled)
TargetKind == {"Roblox", "Lune", "Luau"}

\* derive(PartialOrd, Ord) on TargetKind: variants compare by declaration order.
KindOrd(k) == CASE k = "Roblox" -> 0 [] k = "Lune" -> 1 [] k = "Luau" -> 2

\* Option<RelativePathBuf> for the exported paths
Paths == {None, Some("init.luau")}

\* build_files: BTreeSet<String>
BuildFileSets == SUBSET {"default.project.json", "init.luau"}

\* enum Target: one variant per kind, each with its own fields.
Target ==
    [environment : {"Roblox"}, lib : Paths, build_files : BuildFileSets]
    \cup [environment : {"Lune", "Luau"}, lib : Paths, bin : Paths]

\* Target::kind
kind(t) == t.environment

\* Target::lib_path
lib_path(t) == t.lib

\* Target::bin_path
bin_path(t) == IF t.environment = "Roblox" THEN None ELSE t.bin

is_some(o) == o.tag = "Some"

\* An is_compatible_with whose extra pair is symmetric.
is_compatible_with_Symmetric(self, dependency) ==
    IF self = dependency THEN TRUE
    ELSE {self, dependency} = {"Lune", "Luau"}

\* TargetKind::is_compatible_with
is_compatible_with(self, dependency) ==
    IF self = dependency THEN TRUE
    ELSE IF self = "Lune" /\ dependency = "Luau" THEN TRUE
    ELSE FALSE

\* A validate_publish that checks the build files before the exports.
validate_publish_BuildFilesFirst(t) ==
    LET has_exports ==
            IF t.environment = "Roblox" THEN is_some(t.lib)
            ELSE is_some(t.lib) \/ is_some(t.bin)
    IN IF t.environment = "Roblox" /\ t.build_files = {} THEN Err("NoBuildFiles")
       ELSE IF ~has_exports THEN Err("NoExportedFiles")
       ELSE Ok("unit")

\* Target::validate_publish
validate_publish(t) ==
    LET has_exports ==
            IF t.environment = "Roblox" THEN is_some(t.lib)
            ELSE is_some(t.lib) \/ is_some(t.bin)
    IN IF ~has_exports THEN Err("NoExportedFiles")
       ELSE IF t.environment = "Roblox" /\ t.build_files = {} THEN Err("NoBuildFiles")
       ELSE Ok("unit")

TargetInit ==
    /\ target \in Target
    /\ kinds \in TargetKind \X TargetKind
    /\ publish = Unset
    /\ compatible = Unset

\* target.validate_publish()
ValidatePublish ==
    /\ publish = Unset
    /\ publish' = validate_publish(target)
    /\ UNCHANGED <<target, kinds, compatible, keyVars, manifestVars, registryVars, finderVars, taskVars>>

\* kinds[1].is_compatible_with(&kinds[2])
IsCompatibleWith ==
    /\ compatible = Unset
    /\ compatible' = Returned(is_compatible_with(kinds[1], kinds[2]))
    /\ UNCHANGED <<target, kinds, publish, keyVars, manifestVars, registryVars, finderVars, taskVars>>

----------------------------------------------------------------------------
(* Manifest::all_dependencies: src/src/manifest.rs 240-309 *)

\* Dependency aliases.  An alias is written as its rank in the string order
\* of the alias names, which is the order a BTreeMap<String, _> iterates in.
Aliases == 1..MaxAlias

\* DependencySpecifiers
Specifiers == {"spec_x", "spec_y"}

\* BTreeMap<String, DependencySpecifiers>
DepMaps == UNION {[A -> Specifiers] : A \in SUBSET Aliases}

\* The three dependency maps of struct Manifest
Manifest ==
    [dependencies : DepMaps, peer_dependencies : DepMaps, dev_dependencies : DepMaps]

\* BTreeMap iteration: the keys in increasing order.
RECURSIVE iter(_)
iter(keys) ==
    IF keys = {} THEN <<>>
    ELSE LET least == CHOOSE k \in keys : \A o \in keys : k <= o
         IN <<least>> \o iter(keys \ {least})

\* BTreeMap::insert: the map with the key bound to the value, and the value
\* the key was bound to before, if any.
insert(map, key, value) ==
    [map |-> [k \in DOMAIN map \cup {key} |-> IF k = key THEN value ELSE map[k]],
     old |-> IF key \in DOMAIN map THEN Some(map[key]) ELSE None]

\* The inner loop of all_dependencies over the aliases of one map, from the
\* merged map so far: the merged map, or the first alias already present.
RECURSIVE InsertEach(_, _, _, _)
InsertEach(merged, deps, aliases, ty) ==
    IF aliases = <<>> THEN Ok(merged)
    ELSE LET alias == Head(aliases)
             ins == insert(merged, alias, <<deps[alias], ty>>)
         IN IF is_some(ins.old) THEN Err([AliasConflict |-> alias])
            ELSE InsertEach(ins.map, deps, Tail(aliases), ty)

\* The outer loop of all_dependencies over the (map, type) pairs.
RECURSIVE ForEachMap(_, _)
ForEachMap(merged, pairs) ==
    IF pairs = <<>> THEN Ok(merged)
    ELSE LET deps == Head(pairs)[1]
             ty == Head(pairs)[2]
             r == InsertEach(merged, deps, iter(DOMAIN deps), ty)
         IN IF r.tag = "Err" THEN r ELSE ForEachMap(r.val, Tail(pairs))

\* An inner loop that overwrites an alias already present instead of failing.
RECURSIVE InsertEachOverwrite(_, _, _, _)
InsertEachOverwrite(merged, deps, aliases, ty) ==
    IF aliases = <<>> THEN Ok(merged)
    ELSE LET alias == Head(aliases)
             ins == insert(merged, alias, <<deps[alias], ty>>)
         IN InsertEachOverwrite(ins.map, deps, Tail(aliases), ty)

\* An all_dependencies that checks the standard and peer maps against each
\* other but merges the dev dependencies without the check.
all_dependencies_DevUnchecked(m) ==
    LET r == ForEachMap(<<>>, << <<m.dependencies, "Standard">>,
                                 <<m.peer_dependencies, "Peer">> >>)
    IN IF r.tag = "Err" THEN r
       ELSE InsertEachOverwrite(r.val, m.dev_dependencies,
                                iter(DOMAIN m.dev_dependencies), "Dev")

\* Manifest::all_dependencies
all_dependencies(m) ==
    ForEachMap(<<>>, << <<m.dependencies, "Standard">>,
                        <<m.peer_dependencies, "Peer">>,
                        <<m.dev_dependencies, "Dev">> >>)

ManifestInit ==
    /\ manifest \in Manifest
    /\ all_deps = Unset

\* manifest.all_dependencies()
AllDependencies ==
    /\ all_deps = Unset
    /\ all_deps' = all_dependencies(manifest)
    /\ UNCHANGED <<manifest, keyVars, targetVars, registryVars, finderVars, taskVars>>

----------------------------------------------------------------------------
(* The index record: VersionId, IndexFileEntry, IndexFile, DocEntryKind *)

\* semver::Version as <<major, minor, patch>>
Versions == {<<1, 0, 0>>, <<1, 2, 0>>, <<2, 0, 0>>}

\* Ord for Version: major, then minor, then patch.
VersionLess(a, b) ==
    \/ a[1] < b[1]
    \/ a[1] = b[1] /\ a[2] < b[2]
    \/ a[1] = b[1] /\ a[2] = b[2] /\ a[3] < b[3]

\* VersionId: a version and a target kind
VersionId == [version : Versions, target : TargetKind]

\* Ord for VersionId: the version, then the target kind.
VersionIdLess(a, b) ==
    \/ VersionLess(a.version, b.version)
    \/ a.version = b.version /\ KindOrd(a.target) < KindOrd(b.target)

\* Content hashes of documentation pages
Hashes == {"H1", "H2"}

\* Names of documentation pages and categories
DocNames == {"intro", "guides"}

\* DocEntryKind::Page { name, hash }
Page(name, hash) == [kind |-> "Page", name |-> name, hash |-> hash]

\* DocEntryKind::Category { name, items }
Category(name, items) == [kind |-> "Category", name |-> name, items |-> items]

\* The nodes without children: the pages and the empty categories.
DocLeaves ==
    {Page(nm, h) : nm \in DocNames, h \in Hashes}
        \cup {Category(nm, <<>>) : nm \in DocNames}

\* The documentation trees (lists of top-level nodes) by their number of
\* nodes: the tuple whose element j + 1 is the set of the trees of exactly j
\* nodes, for j up to n.  A tree of j nodes is a first node of k nodes (a leaf,
\* or a category over a tree of k - 1 nodes) before a tree of j - k nodes.
RECURSIVE DocForests(_)
DocForests(n) ==
    IF n = 0 THEN << {<<>>} >>
    ELSE LET smaller == DocForests(n - 1)
             DocNodes(k) ==
                 IF k = 1 THEN DocLeaves
                 ELSE {Category(nm, items) : nm \in DocNames, items \in smaller[k]}
         IN Append(smaller,
                   UNION {{<<node>> \o rest : node \in DocNodes(k),
                                              rest \in smaller[n - k + 1]}
                          : k \in 1..n})

\* The tree Category("guides", [Page("intro", H1),
\*                              Category("advanced", [Page("intro", H2)])])
NestedIntroDocs ==
    <<Category("guides", <<Page("intro", "H1"),
                           Category("advanced", <<Page("intro", "H2")>>)>>)>>

\* The Target an entry of the given kind was published with.
EntryTarget(k) ==
    IF k = "Roblox"
    THEN [environment |-> k, lib |-> Some("init.luau"),
          build_files |-> {"default.project.json"}]
    ELSE [environment |-> k, lib |-> Some("init.luau"), bin |-> None]

\* IndexFileEntry: the target and the documentation tree (the fields the
\* lookup reads; the rest is copied to the response untouched).
IndexFileEntries(docsets) ==
    [target : {EntryTarget(k) : k \in TargetKind}, docs : docsets]

\* The text of a well-formed stored index file: its (key, entry) tables in
\* the order they are written in the file.
File(tables) == [tag |-> "File", tables |-> tables]

\* The well-formed index files of up to n tables, no key twice.
StoredFiles(n, docsets) ==
    {File(f) : f \in
        {g \in SeqsUpTo([key : VersionId, entry : IndexFileEntries(docsets)], n) :
            \A i, j \in 1..Len(g) : i # j => g[i].key # g[j].key}}

\* The record of a package the index does not have.
Absent == [tag |-> "Absent"]

\* A stored record that is not a well-formed index file.
Malformed == [tag |-> "Malformed"]

\* Insertion of one (key, entry) into a list sorted by key.
RECURSIVE SortedInsert(_, _)
SortedInsert(sorted, e) ==
    IF sorted = <<>> THEN <<e>>
    ELSE IF VersionIdLess(e.key, Head(sorted).key) THEN <<e>> \o sorted
    ELSE <<Head(sorted)>> \o SortedInsert(Tail(sorted), e)

\* IndexFile = BTreeMap<VersionId, IndexFileEntry>: the entries in the order
\* the map iterates in, increasing by key, whatever order they were read in.
RECURSIVE IndexFile(_)
IndexFile(tables) ==
    IF tables = <<>> THEN <<>>
    ELSE SortedInsert(IndexFile(Tail(tables)), Head(tables))

\* toml::de::from_str::<IndexFile>
toml_from_str(text) ==
    IF text = Malformed THEN Err("toml") ELSE Ok(IndexFile(text.tables))

----------------------------------------------------------------------------
(* get_package_version: src/registry/src/endpoints/package_version.rs *)

\* enum VersionRequest
Latest == [tag |-> "Latest"]
SpecificVersion(v) == [tag |-> "Specific", val |-> v]
VersionRequest == {Latest} \cup {SpecificVersion(v) : v \in Versions}

\* enum TargetRequest
Any == [tag |-> "Any"]
SpecificTarget(k) == [tag |-> "Specific", val |-> k]
TargetRequest == {Any} \cup {SpecificTarget(k) : k \in TargetKind}

\* Query.doc: Option<String>
DocQuery == {None} \cup {Some(nm) : nm \in DocNames}

\* Values of the Accept header.  The last one is not visible ASCII, so
\* HeaderValue::to_str fails on it.
AcceptValues ==
    {"text/plain", "Text/Plain", "application/octet-stream",
     "APPLICATION/OCTET-STREAM", "application/json", "text/plain<FF>"}

AcceptHeader == {None} \cup {Some(a) : a \in AcceptValues}

\* HeaderValue::to_str().ok()
to_str_ok(value) == IF value = "text/plain<FF>" THEN None ELSE Some(value)

\* str::to_lowercase
to_lowercase(str) ==
    CASE str = "Text/Plain" -> "text/plain"
      [] str = "APPLICATION/OCTET-STREAM" -> "application/octet-stream"
      [] OTHER -> str

\* The condition of the repository: sound, or such that one of the steps of
\* loading the index file fails whatever the request is.
RepoConditions == {"ok", "gix::open", "root_tree", "read_file"}

\* read_file(&tree, [scope, name_part]): the text of the record, if there is one.
read_file(record) == IF record = Absent THEN None ELSE Some(record)

\* Iterator::max over the versions of the keys: the greatest, None when there
\* is no key.
RECURSIVE max_version(_, _)
max_version(entries, best) ==
    IF entries = <<>> THEN best
    ELSE LET v == Head(entries).key.version
         IN max_version(Tail(entries),
                        IF best = None \/ ~VersionLess(v, best.val) THEN Some(v) ELSE best)

\* entries.iter().filter(|(v_id, _)| *v_id.version() == version)
RECURSIVE filter_version(_, _)
filter_version(entries, version) ==
    IF entries = <<>> THEN <<>>
    ELSE IF Head(entries).key.version = version
         THEN <<Head(entries)>> \o filter_version(Tail(entries), version)
         ELSE filter_version(Tail(entries), version)

\* A max_by_key in the place of min_by_key: with the keys in increasing
\* order, the last item.
min_by_key_target_Max(items, best) ==
    IF items = <<>> THEN best ELSE Some(items[Len(items)])

\* Iterator::min_by_key(|(v_id, _)| *v_id.target()): the first of the items
\* whose key's target kind is least, None when there is no item.
RECURSIVE min_by_key_target(_, _)
min_by_key_target(items, best) ==
    IF items = <<>> THEN best
    ELSE LET e == Head(items)
         IN min_by_key_target(Tail(items),
                IF best = None \/ KindOrd(e.key.target) < KindOrd(best.val.key.target)
                THEN Some(e) ELSE best)

\* Iterator::find(|(_, entry)| entry.target.kind() == kind): the first such item.
RECURSIVE find_kind(_, _)
find_kind(items, k) ==
    IF items = <<>> THEN None
    ELSE IF kind(Head(items).entry.target) = k THEN Some(Head(items))
    ELSE find_kind(Tail(items), k)

\* From<&Target> for TargetInfo (registry/src/package.rs)
TargetInfo(t) ==
    [kind |-> kind(t), lib |-> is_some(lib_path(t)), bin |-> is_some(bin_path(t))]

\* A version resolution that takes the version of the first key for Latest.
resolve_version_FirstKey(entries, version) ==
    IF version = Latest
    THEN IF entries = <<>> THEN None ELSE Some(entries[1].key.version)
    ELSE Some(version.val)

\* Lines 86-92: the version to look for, None when Latest finds no key.
resolve_version(entries, version) ==
    IF version = Latest THEN max_version(entries, None) ELSE Some(version.val)

\* A target selection whose Specific branch falls back to any target.
select_target_Fallback(versions, tgt) ==
    IF tgt = Any \/ find_kind(versions, tgt.val) = None
    THEN min_by_key_target(versions, None)
    ELSE find_kind(versions, tgt.val)

\* Lines 98-103: the entry among those of the resolved version.
select_target(versions, tgt) ==
    IF tgt = Any THEN min_by_key_target(versions, None)
    ELSE find_kind(versions, tgt.val)

\* Lines 85-113: Some((v_id, entry, targets)), or None for not-found.
select(entries, version, tgt) ==
    LET resolved == resolve_version(entries, version) IN
    IF resolved = None THEN None
    ELSE LET versions == filter_version(entries, resolved.val)
             found == select_target(versions, tgt)
         IN IF found = None THEN None
            ELSE Some([v_id |-> found.val.key,
                       entry |-> found.val.entry,
                       targets |-> {TargetInfo(versions[i].entry.target)
                                        : i \in 1..Len(versions)}])

\* A turn that drops a Category without appending its items.
finder_step_SkipCategories(stack, doc_name) ==
    LET doc == stack[Len(stack)]
        rest == SubSeq(stack, 1, Len(stack) - 1)
    IN IF doc.kind = "Page" /\ doc.name = doc_name
       THEN [hash |-> Some(doc.hash), stack |-> rest]
       ELSE [hash |-> None, stack |-> rest]

\* One turn of the loop of lines 118-128 on a non-empty worklist: pop the last
\* node; a Page of the wanted name ends the search with its hash, a Category
\* has its items appended, any other node is dropped.
finder_step(stack, doc_name) ==
    LET doc == stack[Len(stack)]
        rest == SubSeq(stack, 1, Len(stack) - 1)
    IN IF doc.kind = "Page" /\ doc.name = doc_name
       THEN [hash |-> Some(doc.hash), stack |-> rest]
       ELSE IF doc.kind = "Category"
            THEN [hash |-> None, stack |-> rest \o doc.items]
            ELSE [hash |-> None, stack |-> rest]

\* A loop that takes the first node of the worklist instead of the last.
RECURSIVE finder_Queue(_, _)
finder_Queue(stack, doc_name) ==
    IF stack = <<>> THEN None
    ELSE LET doc == Head(stack)
         IN IF doc.kind = "Page" /\ doc.name = doc_name THEN Some(doc.hash)
            ELSE IF doc.kind = "Category"
                 THEN finder_Queue(Tail(stack) \o doc.items, doc_name)
                 ELSE finder_Queue(Tail(stack), doc_name)

\* Lines 116-131: the loop, from the worklist; None when it runs empty.
RECURSIVE finder(_, _)
finder(stack, doc_name) ==
    IF stack = <<>> THEN None
    ELSE LET turn == finder_step(stack, doc_name)
         IN IF is_some(turn.hash) THEN turn.hash
            ELSE finder(turn.stack, doc_name)

\* Lines 136-144: Some(true) for the readme, Some(false) for the package.
accept_readme(header) ==
    LET text == IF header = None THEN None ELSE to_str_ok(header.val) IN
    IF text = None THEN None
    ELSE LET lower == to_lowercase(text.val)
         IN IF lower = "text/plain" THEN Some(TRUE)
            ELSE IF lower = "application/octet-stream" THEN Some(FALSE)
            ELSE None

\* The outcomes of the handler
NotFound == [status |-> "NotFound"]
InternalError(cause) == [status |-> "Error", cause |-> cause]
GetDoc(hash) == [status |-> "get_doc", hash |-> hash]
GetReadme(v_id) == [status |-> "get_readme", v_id |-> v_id]
GetPackage(v_id) == [status |-> "get_package", v_id |-> v_id]
Json(sel) ==
    [status |-> "Json", version |-> sel.v_id.version, targets |-> sel.targets,
     docs |-> sel.entry.docs]

\* A response that looks at the Accept header before the doc parameter.
respond_AcceptFirst(sel, req) ==
    LET accept == accept_readme(req.accept)
    IN IF accept # None
       THEN IF accept.val THEN GetReadme(sel.v_id) ELSE GetPackage(sel.v_id)
       ELSE IF req.doc # None
            THEN LET hash == finder(sel.entry.docs, req.doc.val)
                 IN IF hash = None THEN NotFound ELSE GetDoc(hash.val)
            ELSE Json(sel)

\* Lines 115-170: the response once an entry is selected.
respond(sel, req) ==
    IF req.doc # None
    THEN LET hash == finder(sel.entry.docs, req.doc.val)
         IN IF hash = None THEN NotFound ELSE GetDoc(hash.val)
    ELSE LET accept == accept_readme(req.accept)
         IN IF accept # None
            THEN IF accept.val THEN GetReadme(sel.v_id) ELSE GetPackage(sel.v_id)
            ELSE Json(sel)

\* A loader that reports a missing record as a read failure.
load_AbsentIsError(condition, record) ==
    IF condition # "ok" THEN Err(condition)
    ELSE IF record = Absent THEN Err("read_file")
    ELSE toml_from_str(record)

\* Lines 74-83: Err for a failed step, Ok(None) for a missing record,
\* Ok(Some(entries)) for a loaded index file.
load(condition, record) ==
    IF condition # "ok" THEN Err(condition)
    ELSE LET versions == read_file(record)
         IN IF versions = None THEN Ok(None)
            ELSE LET parsed == toml_from_str(versions.val)
                 IN IF parsed.tag = "Err" THEN parsed ELSE Ok(Some(parsed.val))

\* get_package_version: the handler's selection (Unset when it returns
\* before selecting) and its outcome.
get_package_version(condition, record, req) ==
    LET entries == load(condition, record) IN
    IF entries.tag = "Err"
    THEN [selected |-> Unset, response |-> InternalError(entries.err)]
    ELSE IF entries.val = None
    THEN [selected |-> Unset, response |-> NotFound]
    ELSE LET sel == select(entries.val.val, req.version, req.target)
         IN IF sel = None
            THEN [selected |-> None, response |-> NotFound]
            ELSE [selected |-> sel, response |-> respond(sel.val, req)]

Requests(versions, targets, docs, accepts) ==
    [version : versions, target : targets, doc : docs, accept : accepts]

\* GET /packages/{name}/{version}/{target}
GetPackageVersion ==
    /\ response = Unset
    /\ LET out == get_package_version(repo, store, request)
       IN /\ selected' = out.selected
          /\ response' = out.response
    /\ UNCHANGED <<repo, store, request, keyVars, manifestVars, targetVars,
                   finderVars, taskVars>>

\* Lines 64-117 followed by the 'finder loop turn by turn.  EnterFinder is
\* the handler up to the collect of line 117; a request that does not get
\* there is answered as by GetPackageVersion.
Vec(items) == [tag |-> "Vec", items |-> items]

EnterFinder ==
    /\ response = Unset
    /\ worklist = Unset
    /\ LET entries == load(repo, store)
           sel == IF entries.tag = "Ok" /\ entries.val # None
                  THEN select(entries.val.val, request.version, request.target)
                  ELSE None
       IN IF sel # None /\ request.doc # None
          THEN /\ selected' = sel
               /\ worklist' = Vec(sel.val.entry.docs)
               /\ UNCHANGED response
          ELSE LET out == get_package_version(repo, store, request)
               IN /\ selected' = out.selected
                  /\ response' = out.response
                  /\ UNCHANGED worklist
    /\ UNCHANGED <<repo, store, request, turns, keyVars, manifestVars, targetVars, taskVars>>

\* One turn of `while let Some(doc) = hash.pop()`: the break of line 121 with
\* the get_doc of line 133, or the next worklist.
FinderTurn ==
    /\ response = Unset
    /\ worklist # Unset
    /\ worklist.items # <<>>
    /\ LET turn == finder_step(worklist.items, request.doc.val)
       IN /\ worklist' = Vec(turn.stack)
          /\ response' = IF is_some(turn.hash) THEN GetDoc(turn.hash.val) ELSE response
    /\ turns' = turns + 1
    /\ UNCHANGED <<repo, store, request, selected, keyVars, manifestVars, targetVars, taskVars>>

\* pop() returns None: the loop ends and line 130 answers not-found.
FinderExhausted ==
    /\ response = Unset
    /\ worklist # Unset
    /\ worklist.items = <<>>
    /\ response' = NotFound
    /\ UNCHANGED <<repo, store, request, selected, finderVars, keyVars, manifestVars,
                   targetVars, taskVars>>

----------------------------------------------------------------------------
(* get_package_version run by several tasks: AppState.source is one         *)
(* Mutex shared by all requests (src/registry/src/main.rs 40-48)            *)

\* The tasks running the handler, and the value of the Mutex when free.
Tasks == 1..MaxTasks
NoTask == 0

\* The positions of a task: awaiting the lock (line 75), before gix::open
\* (76), root_tree (77), read_file (79), toml::de::from_str (80), the
\* selection (85), the response (115), and returned.
Positions ==
    {"lock", "gix::open", "root_tree", "read_file", "toml", "select", "respond", "done"}

\* The task returns from inside the block of lines 74-83: the guard `source`
\* is dropped, which unlocks the Mutex.
ReturnInBlock(t, outcome) ==
    /\ response' = [response EXCEPT ![t] = outcome]
    /\ pc' = [pc EXCEPT ![t] = "done"]
    /\ source_lock' = NoTask
    /\ UNCHANGED selected

\* The task goes on to the next line, inside the block.
Goto(t, position) ==
    /\ pc' = [pc EXCEPT ![t] = position]
    /\ UNCHANGED <<source_lock, selected, response>>

TasksUnchanged == UNCHANGED <<repo, store, request, finderVars, keyVars, manifestVars, targetVars>>

\* Line 75: app_state.source.lock().await completes when the Mutex is free.
Lock(t) ==
    /\ pc[t] = "lock"
    /\ source_lock = NoTask
    /\ source_lock' = t
    /\ pc' = [pc EXCEPT ![t] = "gix::open"]
    /\ UNCHANGED <<selected, response>>
    /\ TasksUnchanged

\* Line 76: gix::open(source.path(&app_state.project))?
Open(t) ==
    /\ pc[t] = "gix::open"
    /\ IF repo[t] = "gix::open" THEN ReturnInBlock(t, InternalError("gix::open"))
       ELSE Goto(t, "root_tree")
    /\ TasksUnchanged

\* Line 77: root_tree(&repo)?
RootTree(t) ==
    /\ pc[t] = "root_tree"
    /\ IF repo[t] = "root_tree" THEN ReturnInBlock(t, InternalError("root_tree"))
       ELSE Goto(t, "read_file")
    /\ TasksUnchanged

\* A read_file step whose return for a missing record leaves the Mutex locked.
ReadFile_KeepLock(t) ==
    /\ pc[t] = "read_file"
    /\ IF repo[t] = "read_file" THEN ReturnInBlock(t, InternalError("read_file"))
       ELSE IF read_file(store) = None
            THEN /\ response' = [response EXCEPT ![t] = NotFound]
                 /\ pc' = [pc EXCEPT ![t] = "done"]
                 /\ UNCHANGED <<source_lock, selected>>
            ELSE Goto(t, "toml")
    /\ TasksUnchanged

\* Lines 79-82: read_file(&tree, [scope, name_part])?, and the return of
\* not-found when there is no record.
ReadFile(t) ==
    /\ pc[t] = "read_file"
    /\ IF repo[t] = "read_file" THEN ReturnInBlock(t, InternalError("read_file"))
       ELSE IF read_file(store) = None THEN ReturnInBlock(t, NotFound)
            ELSE Goto(t, "toml")
    /\ TasksUnchanged

\* Line 80: toml::de::from_str(&versions)?; with the entries the block ends
\* (line 83) and the guard is dropped.
Parse(t) ==
    /\ pc[t] = "toml"
    /\ IF toml_from_str(store).tag = "Err"
       THEN ReturnInBlock(t, InternalError("toml"))
       ELSE /\ pc' = [pc EXCEPT ![t] = "select"]
            /\ source_lock' = NoTask
            /\ UNCHANGED <<selected, response>>
    /\ TasksUnchanged

\* Lines 85-113 on the entries the task has loaded (the handler only reads
\* the index, so they are what the stored record parses to).
Select(t) ==
    /\ pc[t] = "select"
    /\ LET sel == select(toml_from_str(store).val, request[t].version, request[t].target)
       IN /\ selected' = [selected EXCEPT ![t] = sel]
          /\ IF sel = None
             THEN /\ response' = [response EXCEPT ![t] = NotFound]
                  /\ pc' = [pc EXCEPT ![t] = "done"]
             ELSE /\ pc' = [pc EXCEPT ![t] = "respond"]
                  /\ UNCHANGED response
    /\ UNCHANGED source_lock
    /\ TasksUnchanged

\* Lines 115-170: the documentation search, the storage fetch or the metadata.
Respond(t) ==
    /\ pc[t] = "respond"
    /\ response' = [response EXCEPT ![t] = respond(selected[t].val, request[t])]
    /\ pc' = [pc EXCEPT ![t] = "done"]
    /\ UNCHANGED <<source_lock, selected>>
    /\ TasksUnchanged

----------------------------------------------------------------------------
(* Specifications *)

KeyIdle == key_s = Idle /\ key_parsed = Idle /\ key_shown = Idle
ManifestIdle == manifest = Idle /\ all_deps = Idle
TargetIdle == target = Idle /\ publish = Idle /\ kinds = Idle /\ compatible = Idle
RegistryIdle == repo = Idle /\ store = Idle /\ request = Idle /\ selected = Idle /\ response = Idle
FinderIdle == worklist = Idle /\ turns = Idle
TasksIdle == source_lock = Idle /\ pc = Idle

\* Override keys of up to MaxLen characters are parsed and displayed.
InitOverrideKey ==
    KeyInit /\ ManifestIdle /\ TargetIdle /\ RegistryIdle /\ FinderIdle /\ TasksIdle
NextOverrideKey == ParseKey \/ DisplayKey
SpecOverrideKey == InitOverrideKey /\ [][NextOverrideKey]_vars

\* Manifests over MaxAlias aliases are merged.
InitManifest ==
    ManifestInit /\ KeyIdle /\ TargetIdle /\ RegistryIdle /\ FinderIdle /\ TasksIdle
NextManifest == AllDependencies
SpecManifest == InitManifest /\ [][NextManifest]_vars

\* Targets are validated and pairs of kinds compared.
InitTarget ==
    TargetInit /\ KeyIdle /\ ManifestIdle /\ RegistryIdle /\ FinderIdle /\ TasksIdle
NextTarget == ValidatePublish \/ IsCompatibleWith
SpecTarget == InitTarget /\ [][NextTarget]_vars

\* Version and target selection: index files of up to MaxEntries entries in
\* any stored order, every version and target selector, metadata responses.
InitResolve ==
    /\ store \in StoredFiles(MaxEntries, {NestedIntroDocs})
    /\ repo \in RepoConditions
    /\ request \in Requests(VersionRequest, TargetRequest, {None}, {None})
    /\ selected = Unset
    /\ response = Unset
    /\ KeyIdle /\ ManifestIdle /\ TargetIdle /\ FinderIdle /\ TasksIdle
SpecResolve == InitResolve /\ [][GetPackageVersion]_vars

\* Every request against a missing, a malformed and a small record.
InitLookup ==
    /\ store \in {Absent, Malformed} \cup StoredFiles(1, {<<>>, NestedIntroDocs})
    /\ repo \in RepoConditions
    /\ request \in Requests(VersionRequest, TargetRequest, DocQuery, AcceptHeader)
    /\ selected = Unset
    /\ response = Unset
    /\ KeyIdle /\ ManifestIdle /\ TargetIdle /\ FinderIdle /\ TasksIdle
SpecLookup == InitLookup /\ [][GetPackageVersion]_vars

\* The documentation trees of up to n nodes, and the tree of the example.
DocTrees(n) ==
    LET bySize == DocForests(n)
    IN UNION {bySize[j] : j \in 1..(n + 1)} \cup {NestedIntroDocs}

\* Documentation lookups in every tree of up to MaxNodes nodes, in a sound
\* repository.
InitDocs ==
    /\ store \in {File(<<[key |-> [version |-> <<1, 0, 0>>, target |-> "Luau"],
                          entry |-> [target |-> EntryTarget("Luau"), docs |-> d]]>>)
                  : d \in DocTrees(MaxNodes)}
    /\ repo = "ok"
    /\ request \in Requests({Latest}, {Any}, DocQuery \ {None}, {None})
    /\ selected = Unset
    /\ response = Unset
    /\ KeyIdle /\ ManifestIdle /\ TargetIdle /\ FinderIdle /\ TasksIdle
SpecDocs == InitDocs /\ [][GetPackageVersion]_vars

\* The 'finder loop turn by turn, in every tree of up to MaxNodes nodes.
InitFinder ==
    /\ store \in {File(<<[key |-> [version |-> <<1, 0, 0>>, target |-> "Luau"],
                          entry |-> [target |-> EntryTarget("Luau"), docs |-> d]]>>)
                  : d \in DocTrees(MaxNodes)}
    /\ repo = "ok"
    /\ request \in Requests({Latest}, {Any}, DocQuery \ {None}, {None})
    /\ selected = Unset
    /\ response = Unset
    /\ worklist = Unset
    /\ turns = 0
    /\ KeyIdle /\ ManifestIdle /\ TargetIdle /\ TasksIdle
NextFinder == EnterFinder \/ FinderTurn \/ FinderExhausted
SpecFinder == InitFinder /\ [][NextFinder]_vars

\* The record of one version with one target that the tasks look up.
OneEntryFile ==
    File(<<[key |-> [version |-> <<1, 0, 0>>, target |-> "Luau"],
            entry |-> [target |-> EntryTarget("Luau"), docs |-> NestedIntroDocs]]>>)

\* The requests of the tasks: one answered with a storage fetch, one with
\* not-found by the selection.
TaskRequests ==
    {[version |-> Latest, target |-> Any, doc |-> Some("intro"), accept |-> None],
     [version |-> SpecificVersion(<<1, 0, 0>>), target |-> SpecificTarget("Roblox"),
      doc |-> None, accept |-> None]}

\* MaxTasks requests at the same time for one package, each finding the
\* repository in a condition of its own.
InitTasks ==
    /\ store \in {Absent, Malformed, OneEntryFile}
    /\ repo \in [Tasks -> RepoConditions]
    /\ request \in [Tasks -> TaskRequests]
    /\ selected = [t \in Tasks |-> Unset]
    /\ response = [t \in Tasks |-> Unset]
    /\ source_lock = NoTask
    /\ pc = [t \in Tasks |-> "lock"]
    /\ KeyIdle /\ ManifestIdle /\ TargetIdle /\ FinderIdle
NextTasks ==
    \E t \in Tasks :
        \/ Lock(t) \/ Open(t) \/ RootTree(t) \/ ReadFile(t)
        \/ Parse(t) \/ Select(t) \/ Respond(t)
SpecTasks == InitTasks /\ [][NextTasks]_vars

Init ==
    \/ InitOverrideKey \/ InitManifest \/ InitTarget
    \/ InitResolve \/ InitLookup \/ InitDocs
    \/ InitFinder \/ InitTasks
Next ==
    \/ ParseKey \/ DisplayKey \/ AllDependencies
    \/ ValidatePublish \/ IsCompatibleWith \/ GetPackageVersion
    \/ (worklist # Idle /\ NextFinder)
    \/ (pc # Idle /\ NextTasks)
Spec == Init /\ [][Next]_vars

----------------------------------------------------------------------------
(* Claims about the manifest data model *)

Ran(result) == result # Unset /\ result # Idle

\* C1: parsing the empty text fails with Empty, so no parsed OverrideKey
\* comes from the empty text or has zero chains.
C1_EmptyTextFails ==
    Ran(key_parsed) =>
        /\ key_s = <<>> => key_parsed = Err("Empty")
        /\ key_parsed.tag = "Ok" => key_s # <<>> /\ key_parsed.val # <<>>

\* The aliases that occur in more than one of the three maps of a manifest.
ReusedAliases(m) ==
    {a \in Aliases :
        Cardinality({i \in 1..3 :
            a \in DOMAIN (<<m.dependencies, m.peer_dependencies, m.dev_dependencies>>[i])})
        >= 2}

SumOfLengths(m) ==
    Cardinality(DOMAIN m.dependencies) + Cardinality(DOMAIN m.peer_dependencies)
        + Cardinality(DOMAIN m.dev_dependencies)

\* C2: all_dependencies returns Ok with a map as large as the three maps
\* together if and only if no alias occurs in two of them; otherwise it returns
\* AliasConflict naming an alias that occurs in two of them.
C2_AllDependencies ==
    Ran(all_deps) =>
        /\ (ReusedAliases(manifest) = {}) <=>
               (/\ all_deps.tag = "Ok"
                /\ Cardinality(DOMAIN all_deps.val) = SumOfLengths(manifest))
        /\ ReusedAliases(manifest) # {} =>
               /\ all_deps.tag = "Err"
               /\ all_deps.err.AliasConflict \in ReusedAliases(manifest)

\* A conflict between the peer and the dev dependencies alone is reported.
C2_Witness ==
    /\ Ran(all_deps)
    /\ DOMAIN manifest.dependencies = {1}
    /\ DOMAIN manifest.peer_dependencies = {2}
    /\ DOMAIN manifest.dev_dependencies = {2}
    /\ all_deps = Err([AliasConflict |-> 2])

\* C8: validate_publish returns NoExportedFiles whenever neither a library
\* nor a binary path is set, NoBuildFiles only for a Roblox target with a
\* library path and no build file, and Ok otherwise.
C8_ValidatePublish ==
    Ran(publish) =>
        IF lib_path(target) = None /\ bin_path(target) = None
        THEN publish = Err("NoExportedFiles")
        ELSE IF kind(target) = "Roblox" /\ lib_path(target) # None
                /\ target.build_files = {}
        THEN publish = Err("NoBuildFiles")
        ELSE publish = Ok("unit")

\* A Roblox target with neither exports nor build files: NoExportedFiles.
C8_Witness ==
    /\ kind(target) = "Roblox"
    /\ target.lib = None
    /\ target.build_files = {}
    /\ publish = Err("NoExportedFiles")

\* C9: is_compatible_with is true exactly for equal kinds and for
\* (Lune, Luau).
C9_IsCompatibleWith ==
    Ran(compatible) =>
        (compatible.val <=> (kinds[1] = kinds[2] \/ kinds = <<"Lune", "Luau">>))

\* The reverse pair (Luau, Lune) is not compatible.
C9_Witness ==
    /\ kinds = <<"Luau", "Lune">>
    /\ compatible = Returned(FALSE)

\* C10: displaying the key parsed from a non-empty text gives that text.
C10_RoundTrip ==
    Ran(key_shown) /\ key_s # <<>> => key_shown.val = key_s

\* The text "a>" parses to one chain of the aliases "a" and "" and is
\* displayed as "a>" again.
C10_Witness ==
    /\ key_s = <<"a", ">">>
    /\ key_parsed = Ok(<< << <<"a">>, <<>> >> >>)
    /\ key_shown = Returned(<<"a", ">">>)

----------------------------------------------------------------------------
(* Claims about get_package_version *)

\* The request was answered, and not with a failure to load the index file.
Answered == Ran(response) /\ response.status # "Error"

\* The tables of the stored index file, as a set.
Tables == {store.tables[i] : i \in 1..Len(store.tables)}

\* The greatest version among the keys of a non-empty index file.
MaximumVersion ==
    CHOOSE v \in {tb.key.version : tb \in Tables} :
        \A tb \in Tables : ~VersionLess(v, tb.key.version)

\* The tables under the version the request resolves to.
TablesUnderResolved ==
    IF request.version = Latest
    THEN IF Tables = {} THEN {} ELSE {tb \in Tables : tb.key.version = MaximumVersion}
    ELSE {tb \in Tables : tb.key.version = request.version.val}

\* C3: with Latest, the selected entry's version is the greatest version of
\* the file's keys; with (Latest, Any) on a non-empty file an entry is always
\* selected; on an empty file Latest is not-found.
C3_LatestIsMaximum ==
    Answered /\ request.version = Latest =>
        /\ Tables = {} => selected = None /\ response = NotFound
        /\ is_some(selected) => selected.val.v_id.version = MaximumVersion
        /\ Tables # {} /\ request.target = Any => is_some(selected)

\* An index of 1.2.0 and 1.0.0, stored in that order with one target each:
\* (Latest, Any) selects the entry under 1.2.0.
C3_Witness ==
    /\ Answered
    /\ request.version = Latest /\ request.target = Any
    /\ Len(store.tables) = 2
    /\ store.tables[1].key = [version |-> <<1, 2, 0>>, target |-> "Luau"]
    /\ store.tables[2].key = [version |-> <<1, 0, 0>>, target |-> "Luau"]
    /\ is_some(selected)
    /\ selected.val.v_id = store.tables[1].key
    /\ selected.val.entry = store.tables[1].entry

\* C4: with Specific(K), the outcome is not-found whenever no entry under the
\* resolved version has a target of kind K, whatever other versions hold; an
\* entry that is selected is under the resolved version and its target is of
\* kind K.
C4_SpecificTargetExact ==
    Answered /\ request.target.tag = "Specific" =>
        /\ (\A tb \in TablesUnderResolved : kind(tb.entry.target) # request.target.val)
               => selected = None /\ response = NotFound
        /\ is_some(selected) =>
               /\ kind(selected.val.entry.target) = request.target.val
               /\ \E tb \in TablesUnderResolved :
                      tb.key = selected.val.v_id /\ tb.entry = selected.val.entry

\* 1.0.0 has a Roblox entry only, 2.0.0 has a Luau entry:
\* (Specific(1.0.0), Specific(Luau)) is not-found.
C4_Witness ==
    /\ Answered
    /\ request.version = SpecificVersion(<<1, 0, 0>>)
    /\ request.target = SpecificTarget("Luau")
    /\ Len(store.tables) = 2
    /\ store.tables[1] = [key |-> [version |-> <<1, 0, 0>>, target |-> "Roblox"],
                          entry |-> [target |-> EntryTarget("Roblox"),
                                     docs |-> NestedIntroDocs]]
    /\ store.tables[2] = [key |-> [version |-> <<2, 0, 0>>, target |-> "Luau"],
                          entry |-> [target |-> EntryTarget("Luau"),
                                     docs |-> NestedIntroDocs]]
    /\ selected = None
    /\ response = NotFound

\* The orders the tables of a file can be stored in.
Reorderings(tables) ==
    {[i \in 1..Len(tables) |-> tables[p[i]]] :
        p \in {q \in [1..Len(tables) -> 1..Len(tables)] :
                  \A i, j \in 1..Len(tables) : i # j => q[i] # q[j]}}

\* C5: with Any, the selected entry is the one under the resolved version
\* whose key has the least kind in the order Roblox < Lune < Luau, and every
\* stored order of the same tables gives the same selection and response.
C5_AnyPicksLeastKind ==
    Answered /\ request.target = Any /\ is_some(selected) =>
        /\ \E tb \in TablesUnderResolved :
               /\ tb.key = selected.val.v_id
               /\ tb.entry = selected.val.entry
        /\ \A tb \in TablesUnderResolved :
               KindOrd(selected.val.v_id.target) <= KindOrd(tb.key.target)
        /\ \A other \in Reorderings(store.tables) :
               get_package_version(repo, File(other), request)
                   = [selected |-> selected, response |-> response]

\* 2.0.0 stored with its Luau entry before its Lune entry:
\* (Specific(2.0.0), Any) selects the Lune entry.
C5_Witness ==
    /\ Answered
    /\ request.version = SpecificVersion(<<2, 0, 0>>)
    /\ request.target = Any
    /\ Len(store.tables) = 2
    /\ store.tables[1].key = [version |-> <<2, 0, 0>>, target |-> "Luau"]
    /\ store.tables[2].key = [version |-> <<2, 0, 0>>, target |-> "Lune"]
    /\ is_some(selected)
    /\ selected.val.v_id = store.tables[2].key
    /\ selected.val.entry = store.tables[2].entry

\* The nodes of a documentation tree in the order a stack worklist pops them:
\* the last top-level node, then the nodes below it in the same way, then
\* the rest of the top-level nodes.
RECURSIVE PopOrder(_)
PopOrder(nodes) ==
    IF nodes = <<>> THEN <<>>
    ELSE LET last == nodes[Len(nodes)]
         IN <<last>>
            \o (IF last.kind = "Category" THEN PopOrder(last.items) ELSE <<>>)
            \o PopOrder(SubSeq(nodes, 1, Len(nodes) - 1))

\* The positions in a list of nodes of the pages of the given name.
PagesNamed(order, name) ==
    {i \in 1..Len(order) : order[i].kind = "Page" /\ order[i].name = name}

\* The documentation tree of the one entry of the stored file.
StoredDocs == store.tables[1].entry.docs

\* C6: a documentation lookup returns the hash of the first page of the wanted
\* name in the pop order of the stack worklist, and not-found when there is
\* none; in the tree Category("guides", [Page("intro", H1),
\* Category("advanced", [Page("intro", H2)])]) the lookup of "intro" gives H2.
C6_DocLookupOrder ==
    Answered /\ is_some(selected) /\ request.doc # None =>
        LET order == PopOrder(selected.val.entry.docs)
            pages == PagesNamed(order, request.doc.val)
        IN /\ pages = {} => response = NotFound
           /\ pages # {} =>
                  response = GetDoc(order[CHOOSE i \in pages : \A j \in pages : i <= j].hash)
           /\ selected.val.entry.docs = NestedIntroDocs /\ request.doc = Some("intro")
                  => response = GetDoc("H2")

\* The lookup of "intro" in the tree of the example is answered with H2.
C6_Witness ==
    /\ Answered
    /\ StoredDocs = NestedIntroDocs
    /\ request.doc = Some("intro")
    /\ response = GetDoc("H2")

\* C7, as claimed: a query for a package without a stored index record always
\* ends in not-found.
C7_AbsentAlwaysNotFound ==
    Ran(response) /\ store = Absent => response = NotFound

\* C7, amended: a query for a package without a stored index record ends in
\* not-found when the repository can be opened and read, and in the internal
\* error of the failing step when it cannot; never in a parse error.
C7_AbsentNotFoundUnlessRepoFails ==
    Ran(response) /\ store = Absent =>
        /\ repo = "ok" => response = NotFound
        /\ repo # "ok" => response = InternalError(repo)
        /\ response # InternalError("toml")
        /\ selected = Unset

\* A request with a doc parameter and an Accept header for a package without
\* record, in a sound repository: not-found.
C7_Witness ==
    /\ store = Absent
    /\ repo = "ok"
    /\ request.doc = Some("intro")
    /\ request.accept = Some("text/plain")
    /\ request.version = SpecificVersion(<<1, 0, 0>>)
    /\ response = NotFound

----------------------------------------------------------------------------
(* Claims about concurrent requests, the response and the documentation search *)

\* The task is inside the block of lines 74-83, after the lock and before the
\* block is left.
InBlock(t) == pc[t] \in {"gix::open", "root_tree", "read_file", "toml"}

\* C11: at most one task at a time is between opening the repository and
\* parsing the index file; the Mutex is held by a task exactly while it is
\* there, so it is free again on every way out of the block, the selection,
\* the documentation search and the storage fetches run without it, and a
\* waiting task is never kept out by one that has returned.
C11_LockHeldExactlyInBlock ==
    /\ \A t, u \in Tasks : InBlock(t) /\ InBlock(u) => t = u
    /\ \A t \in Tasks : InBlock(t) <=> source_lock = t
    /\ \A t \in Tasks : pc[t] \in {"select", "respond", "done"} => source_lock # t
    /\ \A t \in Tasks :
           pc[t] = "lock" /\ source_lock # NoTask => pc[source_lock] # "done"

\* One request has failed to open the repository and returned; the other
\* holds the lock and reads the index.
C11_Witness ==
    /\ pc[1] = "done"
    /\ response[1] = InternalError("gix::open")
    /\ pc[2] = "read_file"
    /\ source_lock = 2

\* With the tasks scheduled fairly, every request is answered.
FairTasks == SpecTasks /\ \A t \in Tasks : WF_vars(
    Lock(t) \/ Open(t) \/ RootTree(t) \/ ReadFile(t) \/ Parse(t) \/ Select(t) \/ Respond(t))
AllAnswered == <>(\A t \in Tasks : pc[t] = "done" /\ response[t] # Unset)

\* Taken step by step, each task answers as the handler run in one piece.
TasksAnswerAsHandler ==
    \A t \in Tasks :
        pc[t] = "done" => response[t] = get_package_version(repo[t], store, request[t]).response

\* The pages of a documentation tree, at every depth.
RECURSIVE AllPages(_)
AllPages(nodes) ==
    IF nodes = <<>> THEN {}
    ELSE LET node == Head(nodes)
         IN (IF node.kind = "Page" THEN {node} ELSE AllPages(node.items))
                \cup AllPages(Tail(nodes))

\* The Accept values that are text/plain and application/octet-stream up to
\* the case of their letters.
PlainText == {Some("text/plain"), Some("Text/Plain")}
OctetStream == {Some("application/octet-stream"), Some("APPLICATION/OCTET-STREAM")}

\* C12: once an entry is selected, a request with a doc parameter is answered
\* with the document fetch of a page of that name or with not-found, whatever
\* its Accept header; without a doc parameter, Accept text/plain (in any case)
\* gives the readme fetch, application/octet-stream the package fetch, and any
\* other or no Accept value the JSON metadata; the outcomes exclude each other.
C12_ResponsePriority ==
    Answered /\ is_some(selected) =>
        LET sel == selected.val IN
        /\ request.doc # None =>
               \/ response = NotFound
               \/ \E page \in AllPages(sel.entry.docs) :
                      page.name = request.doc.val /\ response = GetDoc(page.hash)
        /\ request.doc = None /\ request.accept \in PlainText =>
               response = GetReadme(sel.v_id)
        /\ request.doc = None /\ request.accept \in OctetStream =>
               response = GetPackage(sel.v_id)
        /\ request.doc = None /\ request.accept \notin PlainText \cup OctetStream =>
               response = Json(sel)
        /\ response.status \in {"NotFound", "get_doc", "get_readme", "get_package", "Json"}

\* A request with both a doc parameter and Accept: text/plain is answered
\* with the document.
C12_Witness ==
    /\ Answered
    /\ is_some(selected)
    /\ request.doc = Some("intro")
    /\ request.accept = Some("text/plain")
    /\ response = GetDoc("H2")

\* The number of nodes of a documentation tree, at every depth.
RECURSIVE Weight(_)
Weight(nodes) ==
    IF nodes = <<>> THEN 0
    ELSE LET node == Head(nodes)
         IN 1 + (IF node.kind = "Category" THEN Weight(node.items) ELSE 0)
              + Weight(Tail(nodes))

\* The search has been entered and can take no further step.
FinderOver == worklist # Unset /\ Ran(response)

\* C13: the worklist search ends on every finite tree: each turn takes one
\* node off the nodes still to visit, so the turns taken and the nodes left
\* add up to the size of the tree, and an unanswered search has a step to
\* take.  It answers not-found exactly when no Page of the tree, at any
\* depth, has the wanted name (a Category of that name is not a match), having
\* then visited every node; otherwise it answers with a page of that name.
C13_SearchEndsAndFindsPages ==
    worklist # Unset =>
        LET wanted == {page \in AllPages(StoredDocs) : page.name = request.doc.val} IN
        /\ turns + Weight(worklist.items) = Weight(StoredDocs)
        /\ ~Ran(response) => ENABLED NextFinder
        /\ Ran(response) =>
               /\ response = NotFound <=> wanted = {}
               /\ response = NotFound => turns = Weight(StoredDocs)
               /\ response # NotFound =>
                      \E page \in wanted : response = GetDoc(page.hash)

\* The search for "guides" in the tree whose only node of that name is a
\* Category ends with not-found after visiting its four nodes.
C13_Witness ==
    /\ FinderOver
    /\ StoredDocs = NestedIntroDocs
    /\ request.doc = Some("guides")
    /\ response = NotFound
    /\ turns = 4

\* With the loop scheduled, every search is answered, and as the handler run
\* in one piece answers.
FairFinder == SpecFinder /\ WF_vars(NextFinder)
FinderAnswers == <>Ran(response)
FinderAnswersAsHandler ==
    Ran(response) => response = get_package_version(repo, store, request).response

\* C14: when Specific(K) selects an entry, the VersionId returned with it has
\* the resolved version and the target kind K, and the entry's own target has
\* kind K, in every index file that parses.
C14_SpecificKeyKindIsK ==
    Answered /\ request.target # Any /\ is_some(selected) =>
        LET v_id == selected.val.v_id
            entry == selected.val.entry
        IN /\ v_id.version =
                  (IF request.version = Latest THEN MaximumVersion ELSE request.version.val)
           /\ v_id.target = request.target.val
           /\ kind(entry.target) = request.target.val

====
